---- MODULE Spec2Model ----
(***************************************************************************)
(* Model of the two scripts of digests-api's src/ directory:               *)
(*   compare_responses.py    compare_objects, the recursive JSON diff      *)
(*   analyze_api_response.py the per-feed structure report                 *)
(*                                                                         *)
(* A parsed JSON value is the pair <<python type name, payload>>:          *)
(*   <<"NoneType", 0>>, <<"bool", b>>, <<"int", n>>,                       *)
(*   <<"float", tenths>> (50 is 5.0, 15 is 1.5),                           *)
(*   <<"str", sequence of characters>>, <<"list", sequence of values>>,    *)
(*   <<"dict", function from keys to values>>.                             *)
(* A path string is the sequence of its tokens (keys, ".", "[0]"); keys    *)
(* are identifier-like field names, holding neither "." nor "[".           *)
(***************************************************************************)
EXTENDS Integers, Sequences, FiniteSets, TLC

VARIABLES
  obj1, obj2, path,   \* compare_responses.py: the arguments of compare_objects
  differences,        \* the list it returned
  again,              \* the list a second run returned
  pc,                 \* where compare_responses.py is
  feed,               \* analyze_api_response.py: data['feeds'][0]
  report,             \* the lines it printed
  raised,             \* the exception that ended it, or "none"
  apc                 \* where analyze_api_response.py is

vars == <<obj1, obj2, path, differences, again, pc, feed, report, raised, apc>>

-----------------------------------------------------------------------------
(* JSON values as json.load builds them *)

NoneVal == <<"NoneType", 0>>
BoolVal(b) == <<"bool", b>>
IntVal(n) == <<"int", n>>
FloatVal(tenths) == <<"float", tenths>>
StrVal(s) == <<"str", s>>
ListVal(xs) == <<"list", xs>>
DictVal(f) == <<"dict", f>>

\* type(val).__name__
TypeName(val) == val[1]
Payload(val) == val[2]

\* isinstance(val, dict), isinstance(val, list)
IsDict(val) == TypeName(val) = "dict"
IsList(val) == TypeName(val) = "list"

\* mutant: an identity test, true of any two separately parsed values
PyNotEqualByIdentity(val1, val2) == TRUE

\* val1 != val2 on two values of the same python type
PyNotEqual(val1, val2) == val1 # val2

-----------------------------------------------------------------------------
(* The inputs: bounded sets of JSON values *)

MaxLen == 2

Keys == {"count", "created", "title"}
\* every key of the inputs, in lexicographic order, as sorted() orders them
SortedKeys ==
  <<"author", "content", "count", "created", "description", "guid", "id", "items",
    "lastRefreshed", "lastUpdated", "name", "published", "title">>

Scalars ==
  {NoneVal, BoolVal(TRUE), IntVal(5), FloatVal(50), FloatVal(15), StrVal(<<"x">>), StrVal(<<"y">>)}

DictsOver(ks, vals) == UNION {{DictVal(f) : f \in [S -> vals]} : S \in SUBSET ks}

SeqsOver(elems, n) == UNION {[1..m -> elems] : m \in 0..n}

\* objects with several keys and scalar values
WideObjs == DictsOver(Keys, {IntVal(5), StrVal(<<"x">>), StrVal(<<"y">>)})

\* the objects found below the top level
NestObjs == DictsOver({"count", "created"}, {IntVal(5), StrVal(<<"x">>)})

ArrElems == {IntVal(5), DictVal([k \in {"count"} |-> IntVal(5)]),
             DictVal([k \in {"count", "created"} |-> StrVal(<<"x">>)])}

Arrays == {ListVal(xs) : xs \in SeqsOver(ArrElems, MaxLen)}

FieldVals == Scalars \cup NestObjs \cup Arrays

\* objects with one key and any value
DeepObjs == UNION {{DictVal([k \in {key} |-> val]) : val \in FieldVals} : key \in Keys}

\* objects with one of the other keys the script lists by name
ListedKeys ==
  {"lastRefreshed", "lastUpdated", "published", "guid", "id", "description", "content"}

ListedObjs ==
  UNION {{DictVal([k \in {key} |-> val]) : val \in {IntVal(5), StrVal(<<"x">>), StrVal(<<"y">>)}} :
         key \in ListedKeys}

Values == Scalars \cup Arrays \cup WideObjs \cup DeepObjs \cup ListedObjs

Paths == {<<>>, <<"feeds[0]">>}

-----------------------------------------------------------------------------
(* compare_responses.py *)

IgnoredKeys == {"lastRefreshed", "lastUpdated", "published", "created"}

ValueExemptKeys == {"guid", "id", "description", "content", "title"}

\* sorted(keys) for a set of keys
Sorted(keys) == SelectSeq(SortedKeys, LAMBDA k : k \in keys)

\* the messages compare_objects appends: <<prefix, path, detail>>
\* mutant: the message of the other side
OnlyCurrentAsNew(p, keys) == <<"Fields only in new API at", p, Sorted(keys)>>

\* mutant: sorted() forgotten, the keys come in another order
OnlyNewUnsorted(p, keys) ==
  <<"Fields only in new API at", p,
    [i \in 1..Len(Sorted(keys)) |-> Sorted(keys)[Len(Sorted(keys)) + 1 - i]]>>

OnlyCurrent(p, keys) == <<"Fields only in current API at", p, Sorted(keys)>>
OnlyNew(p, keys) == <<"Fields only in new API at", p, Sorted(keys)>>
TypeMismatch(p, type1, type2) == <<"Type mismatch at", p, <<type1, type2>>>>
LengthMismatch(p, len1, len2) == <<"Array length mismatch at", p, <<len1, len2>>>>
ValueDifference(p, val1, val2) == <<"Value difference at", p, <<val1, val2>>>>

Kind(rec) == rec[1]
PathOf(rec) == rec[2]
Detail(rec) == rec[3]

\* compare_field_types: the message, or <<>> for None
compare_field_types(val1, val2, p) ==
  IF TypeName(val1) # TypeName(val2)
    THEN <<TypeMismatch(p, TypeName(val1), TypeName(val2))>>
    ELSE <<>>

\* f"{path}.{key}" if path else key
NewPath(p, key) == IF p # <<>> THEN p \o <<".", key>> ELSE <<key>>

\* f"{new_path}[0]"
FirstItemPath(p) == p \o <<"[0]">>

\* mutant: a key missing from the list
IsIgnoredShortList(key) == key \in {"lastRefreshed", "lastUpdated", "published"}

\* key in [...] of line 42
IsIgnored(key) == key \in IgnoredKeys

\* key not in [...] of line 60
IsValueExempt(key) == key \in ValueExemptKeys

\* mutant: the isinstance tests forgotten
FirstItemsExist(val1, val2) ==
  /\ Len(Payload(val1)) > 0
  /\ Len(Payload(val2)) > 0

\* line 58: val1 and val2 and isinstance(val1[0], dict) and isinstance(val2[0], dict)
FirstItemsAreDicts(val1, val2) ==
  /\ Len(Payload(val1)) > 0
  /\ Len(Payload(val2)) > 0
  /\ IsDict(Payload(val1)[1])
  /\ IsDict(Payload(val2)[1])

\* The set of lists compare_objects(obj1, obj2, path) can return: the loop of
\* line 36 iterates a set of strings, whose order the language leaves open
\* (it changes from one process to the next with the hash seed), so every
\* order of the common keys is a possible run.
RECURSIVE compare_objects(_, _, _)
compare_objects(o1, o2, p) ==
  LET keys1 == IF IsDict(o1) THEN DOMAIN Payload(o1) ELSE {}
      keys2 == IF IsDict(o2) THEN DOMAIN Payload(o2) ELSE {}
      only_in_current == keys1 \ keys2
      only_in_new == keys2 \ keys1
      missing ==
        (IF only_in_current # {} THEN <<OnlyCurrent(p, only_in_current)>> ELSE <<>>)
        \o (IF only_in_new # {} THEN <<OnlyNew(p, only_in_new)>> ELSE <<>>)
      \* the lists one pass of the loop body can append for key
      body(key) ==
        LET val1 == Payload(o1)[key]
            val2 == Payload(o2)[key]
            new_path == NewPath(p, key)
            type_diff == compare_field_types(val1, val2, new_path)
        IN IF IsIgnored(key) THEN {<<>>}
           ELSE IF type_diff # <<>> THEN {type_diff}
           ELSE IF IsDict(val1) /\ IsDict(val2)
             THEN compare_objects(val1, val2, new_path)
           ELSE IF IsList(val1) /\ IsList(val2)
             THEN LET lens == IF Len(Payload(val1)) # Len(Payload(val2))
                                THEN <<LengthMismatch(new_path, Len(Payload(val1)),
                                                      Len(Payload(val2)))>>
                                ELSE <<>>
                  IN IF FirstItemsAreDicts(val1, val2)
                       THEN {lens \o sub :
                               sub \in compare_objects(Payload(val1)[1], Payload(val2)[1],
                                                       FirstItemPath(new_path))}
                       ELSE {lens}
           ELSE IF PyNotEqual(val1, val2) /\ ~IsValueExempt(key)
             THEN {<<ValueDifference(new_path, val1, val2)>>}
           ELSE {<<>>}
      RECURSIVE loop(_)
      loop(keys) ==
        IF keys = {} THEN {<<>>}
        ELSE UNION {{first \o rest : first \in body(key), rest \in loop(keys \ {key})} :
                    key \in keys}
  IN {missing \o common : common \in loop(keys1 \cap keys2)}

-----------------------------------------------------------------------------
(* analyze_api_response.py: str() of a value, as a sequence of characters *)

PreviewLen == 50

Digit(d) == <<"0", "1", "2", "3", "4", "5", "6", "7", "8", "9">>[d + 1]

RECURSIVE IntStr(_)
IntStr(n) ==
  IF n < 0 THEN <<"-">> \o IntStr(-n)
  ELSE IF n < 10 THEN <<Digit(n)>>
  ELSE IntStr(n \div 10) \o <<Digit(n % 10)>>

\* floats with one decimal (tenths >= 0): 50 prints "5.0"
FloatStr(tenths) == IntStr(tenths \div 10) \o <<".", Digit(tenths % 10)>>

\* the characters of the keys the analyzed feeds use
KeyChars(key) ==
  CASE key = "author" -> <<"a", "u", "t", "h", "o", "r">>
    [] key = "count" -> <<"c", "o", "u", "n", "t">>
    [] key = "items" -> <<"i", "t", "e", "m", "s">>
    [] key = "name" -> <<"n", "a", "m", "e">>
    [] key = "title" -> <<"t", "i", "t", "l", "e">>

RECURSIVE JoinSeq(_)
\* ", ".join(parts)
JoinSeq(parts) ==
  IF parts = <<>> THEN <<>>
  ELSE IF Len(parts) = 1 THEN parts[1]
  ELSE parts[1] \o <<",", " ">> \o JoinSeq(Tail(parts))

\* repr(val); the keys of an object print in the order written, which for the
\* bounded feeds is the sorted order
RECURSIVE PyRepr(_)
PyRepr(val) ==
  CASE TypeName(val) = "NoneType" -> <<"N", "o", "n", "e">>
    [] TypeName(val) = "bool" ->
         IF Payload(val) THEN <<"T", "r", "u", "e">> ELSE <<"F", "a", "l", "s", "e">>
    [] TypeName(val) = "int" -> IntStr(Payload(val))
    [] TypeName(val) = "float" -> FloatStr(Payload(val))
    [] TypeName(val) = "str" -> <<"'">> \o Payload(val) \o <<"'">>
    [] TypeName(val) = "list" ->
         <<"[">> \o JoinSeq([i \in DOMAIN Payload(val) |-> PyRepr(Payload(val)[i])]) \o <<"]">>
    [] TypeName(val) = "dict" ->
         LET ks == Sorted(DOMAIN Payload(val))
         IN <<"{">>
            \o JoinSeq([i \in DOMAIN ks |->
                 <<"'">> \o KeyChars(ks[i]) \o <<"'", ":", " ">> \o PyRepr(Payload(val)[ks[i]])])
            \o <<"}">>

\* str(val)
PyStr(val) == IF TypeName(val) = "str" THEN Payload(val) ELSE PyRepr(val)

\* mutant: the ellipsis counted in the 50 characters
SampleWithinLimit(val) ==
  IF Len(PyStr(val)) > PreviewLen
    THEN SubSeq(PyStr(val), 1, PreviewLen - 3) \o <<".", ".", ".">>
    ELSE PyStr(val)

\* str(v)[:50] + "..." if len(str(v)) > 50 else str(v)
Sample(val) ==
  IF Len(PyStr(val)) > PreviewLen
    THEN SubSeq(PyStr(val), 1, PreviewLen) \o <<".", ".", ".">>
    ELSE PyStr(val)

\* bool(val)
PyTruthy(val) ==
  CASE TypeName(val) = "NoneType" -> FALSE
    [] TypeName(val) = "bool" -> Payload(val)
    [] TypeName(val) \in {"int", "float"} -> Payload(val) # 0
    [] TypeName(val) \in {"str", "list"} -> Len(Payload(val)) > 0
    [] TypeName(val) = "dict" -> DOMAIN Payload(val) # {}

\* d.get(key)
Get(d, key) == IF key \in DOMAIN Payload(d) THEN Payload(d)[key] ELSE NoneVal

\* the lines of "for key in sorted(d.keys())": key, type name, sample
FieldLines(section, d) ==
  LET ks == Sorted(DOMAIN Payload(d))
  IN [i \in DOMAIN ks |->
        <<section, ks[i], TypeName(Payload(d)[ks[i]]), Sample(Payload(d)[ks[i]])>>]

\* the lines of "for key, value in feed['author'].items()"
AuthorLines(d) ==
  LET ks == Sorted(DOMAIN Payload(d))
  IN [i \in DOMAIN ks |-> <<"author", ks[i], Payload(d)[ks[i]]>>]

\* lines 30-33: what feed['author'].items() raises
AuthorError(author) ==
  IF PyTruthy(author) /\ ~IsDict(author) THEN "AttributeError" ELSE "none"

\* lines 36-42: what len(feed['items']), feed['items'][0], len(item) and
\* item.keys() raise
ItemsError(items) ==
  IF ~PyTruthy(items) THEN "none"
  ELSE IF TypeName(items) \in {"bool", "int", "float"} THEN "TypeError"
  ELSE IF TypeName(items) = "dict" THEN "KeyError"
  ELSE IF TypeName(items) = "str" THEN "AttributeError"
  ELSE IF TypeName(Payload(items)[1]) \in {"NoneType", "bool", "int", "float"}
    THEN "TypeError"
  ELSE IF TypeName(Payload(items)[1]) \in {"str", "list"} THEN "AttributeError"
  ELSE "none"

(* The feeds analyze_api_response.py is run on *)

MaxStrLen == 52

\* a string of n characters
LongStr(n) == StrVal([i \in 1..n |-> Digit(i % 10)])

StrLens == {0, 3} \cup ((PreviewLen - 1)..MaxStrLen)

Titles ==
  {LongStr(n) : n \in StrLens}
    \cup {IntVal(5), ListVal(<<LongStr(PreviewLen - 1)>>), ListVal(<<IntVal(5), FloatVal(15)>>)}

ItemDicts ==
  {DictVal(<<>>)} \cup {DictVal([k \in {"title"} |-> t]) : t \in Titles}
    \cup {DictVal([k \in {"count", "title"} |-> IF k = "count" THEN IntVal(5) ELSE t]) :
            t \in Titles}

Authors ==
  {NoneVal, StrVal(<<>>), StrVal(<<"B", "o", "b">>), IntVal(0), IntVal(5), ListVal(<<>>),
   ListVal(<<StrVal(<<"B", "o", "b">>)>>), DictVal(<<>>),
   DictVal([k \in {"name"} |-> StrVal(<<"B", "o", "b">>)])}

ItemLists ==
  {NoneVal, IntVal(5), StrVal(<<"x">>), DictVal([k \in {"count"} |-> IntVal(5)]),
   ListVal(<<>>), ListVal(<<IntVal(5)>>), ListVal(<<StrVal(<<"x">>)>>), ListVal(<<NoneVal>>),
   ListVal(<<ListVal(<<>>)>>)}
    \cup {ListVal(<<d>>) : d \in ItemDicts}
    \cup {ListVal(<<d, IntVal(5)>>) : d \in ItemDicts}

FeedValues(key) ==
  CASE key = "author" -> Authors
    [] key = "items" -> ItemLists
    [] key = "title" -> Titles

Feeds ==
  UNION {{DictVal(f) : f \in {g \in [S -> Authors \cup ItemLists \cup Titles] :
                                \A k \in S : g[k] \in FeedValues(k)}} :
         S \in SUBSET {"author", "items", "title"}}

-----------------------------------------------------------------------------
(* The run of compare_responses.py on two loaded responses *)

Init ==
  /\ obj1 \in Values
  /\ obj2 \in Values
  /\ path \in Paths
  /\ differences = <<>>
  /\ again = <<>>
  /\ pc = "loaded"
  /\ feed = NoneVal
  /\ report = <<>>
  /\ raised = "none"
  /\ apc = "idle"

\* feed_diffs = compare_objects(current_feeds[0], new_feeds[0], "feeds[0]")
Compare ==
  /\ pc = "loaded"
  /\ differences' \in compare_objects(obj1, obj2, path)
  /\ pc' = "compared"
  /\ UNCHANGED <<obj1, obj2, path, again, feed, report, raised, apc>>

\* a second run of the script on the same two files
CompareAgain ==
  /\ pc = "compared"
  /\ again' \in compare_objects(obj1, obj2, path)
  /\ pc' = "repeated"
  /\ UNCHANGED <<obj1, obj2, path, differences, feed, report, raised, apc>>

Next == Compare \/ CompareAgain

Spec == Init /\ [][Next]_vars

-----------------------------------------------------------------------------
(* The run of analyze_api_response.py on a response with a first feed *)

DescribeInit ==
  /\ obj1 = NoneVal
  /\ obj2 = NoneVal
  /\ path = <<>>
  /\ differences = <<>>
  /\ again = <<>>
  /\ pc = "idle"
  /\ feed \in Feeds
  /\ report = <<>>
  /\ raised = "none"
  /\ apc = "feed"

\* lines 22-27: the first feed's keys
PrintFeed ==
  /\ apc = "feed"
  /\ report' = report \o FieldLines("feed", feed)
  /\ apc' = "author"
  /\ UNCHANGED <<obj1, obj2, path, differences, again, pc, feed, raised>>

\* lines 30-33: the author structure, when there is one
PrintAuthor ==
  /\ apc = "author"
  /\ AuthorError(Get(feed, "author")) = "none"
  /\ report' = IF PyTruthy(Get(feed, "author"))
                 THEN report \o AuthorLines(Get(feed, "author"))
                 ELSE report
  /\ apc' = "items"
  /\ UNCHANGED <<obj1, obj2, path, differences, again, pc, feed, raised>>

\* line 32 raises: no handler of the script catches it
PrintAuthorRaises ==
  /\ apc = "author"
  /\ AuthorError(Get(feed, "author")) # "none"
  /\ raised' = AuthorError(Get(feed, "author"))
  /\ apc' = "raised"
  /\ UNCHANGED <<obj1, obj2, path, differences, again, pc, feed, report>>

\* lines 36-42: the first item's keys, when there is one
PrintFirstItem ==
  /\ apc = "items"
  /\ ItemsError(Get(feed, "items")) = "none"
  /\ report' = IF PyTruthy(Get(feed, "items"))
                 THEN report \o FieldLines("item", Payload(Get(feed, "items"))[1])
                 ELSE report
  /\ apc' = "done"
  /\ UNCHANGED <<obj1, obj2, path, differences, again, pc, feed, raised>>

\* lines 36-39 raise
PrintFirstItemRaises ==
  /\ apc = "items"
  /\ ItemsError(Get(feed, "items")) # "none"
  /\ raised' = ItemsError(Get(feed, "items"))
  /\ apc' = "raised"
  /\ UNCHANGED <<obj1, obj2, path, differences, again, pc, feed, report>>

DescribeNext ==
  PrintFeed \/ PrintAuthor \/ PrintAuthorRaises \/ PrintFirstItem \/ PrintFirstItemRaises

DescribeSpec == DescribeInit /\ [][DescribeNext]_vars

-----------------------------------------------------------------------------
(* What the claims speak of *)

Compared == pc \in {"compared", "repeated"}

BothDicts == IsDict(obj1) /\ IsDict(obj2)

KeysOf(val) == IF IsDict(val) THEN DOMAIN Payload(val) ELSE {}

CommonKeys == KeysOf(obj1) \cap KeysOf(obj2)

ToSet(seq) == {seq[i] : i \in DOMAIN seq}

KeyIndex(key) == CHOOSE i \in DOMAIN SortedKeys : SortedKeys[i] = key

\* seq lists exactly keys, each once, in lexicographic order
IsSortedListOf(seq, keys) ==
  /\ ToSet(seq) = keys
  /\ Len(seq) = Cardinality(keys)
  /\ \A i, j \in DOMAIN seq : i < j => KeyIndex(seq[i]) < KeyIndex(seq[j])

\* the record's path is p or lies below p
Under(p, rec) ==
  /\ Len(PathOf(rec)) >= Len(p)
  /\ SubSeq(PathOf(rec), 1, Len(p)) = p

RecordsUnder(p, recs) == SelectSeq(recs, LAMBDA rec : Under(p, rec))

IsKeyOnly(rec) ==
  Kind(rec) \in {"Fields only in current API at", "Fields only in new API at"}

\* C1: comparing a value with itself returns no difference, whatever the path.
Reflexivity ==
  /\ (Compared /\ obj1 = obj2) => differences = <<>>
  /\ (pc = "repeated" /\ obj1 = obj2) => again = <<>>

ReflexivityWitness ==
  /\ pc = "compared"
  /\ obj1 = obj2
  /\ path # <<>>
  /\ \E k \in KeysOf(obj1) :
       /\ IsList(Payload(obj1)[k])
       /\ Len(Payload(Payload(obj1)[k])) = MaxLen
       /\ IsDict(Payload(Payload(obj1)[k])[1])
       /\ KeysOf(Payload(Payload(obj1)[k])[1]) # {}

\* C2 as stated: when an argument is not an object there is no
\* "Fields only in ..." record.
NoKeyOnlyWhenNotObject ==
  (Compared /\ ~BothDicts) => \A rec \in ToSet(differences) : ~IsKeyOnly(rec)

\* C2 as amended: when an argument is not an object the call returns nothing,
\* except that a non-empty object on the other side gives exactly one
\* "Fields only in ..." record at the call's path listing all its keys, sorted;
\* there is no other record, so no recursion.
NotObjectDegrades ==
  (Compared /\ ~BothDicts) =>
    /\ KeysOf(obj1) = {} /\ KeysOf(obj2) = {} => differences = <<>>
    /\ KeysOf(obj1) # {} =>
         /\ Len(differences) = 1
         /\ Kind(differences[1]) = "Fields only in current API at"
         /\ PathOf(differences[1]) = path
         /\ IsSortedListOf(Detail(differences[1]), KeysOf(obj1))
    /\ KeysOf(obj2) # {} =>
         /\ Len(differences) = 1
         /\ Kind(differences[1]) = "Fields only in new API at"
         /\ PathOf(differences[1]) = path
         /\ IsSortedListOf(Detail(differences[1]), KeysOf(obj2))

NotObjectDegradesWitness ==
  /\ pc = "compared"
  /\ IsDict(obj1)
  /\ ~IsDict(obj2)
  /\ Cardinality(KeysOf(obj1)) >= 2
  /\ Len(differences) = 1

\* C3: for a common key that is not ignored and holds an array on both sides,
\* the records at or below the key's path are one length record when the
\* lengths differ (none when they are equal), followed, when both first
\* elements exist and are objects, by the records of comparing those two
\* elements at the path with "[0]" appended, and by nothing otherwise.
ArraySampling ==
  (Compared /\ BothDicts) =>
    \A k \in CommonKeys :
      LET val1 == Payload(obj1)[k]
          val2 == Payload(obj2)[k]
          p == IF path = <<>> THEN <<k>> ELSE path \o <<".", k>>
          recs == RecordsUnder(p, differences)
          lens == SelectSeq(recs, LAMBDA rec : Kind(rec) = "Array length mismatch at")
          rest == SelectSeq(recs, LAMBDA rec : Kind(rec) # "Array length mismatch at")
          sampled == /\ Len(Payload(val1)) >= 1
                     /\ Len(Payload(val2)) >= 1
                     /\ TypeName(Payload(val1)[1]) = "dict"
                     /\ TypeName(Payload(val2)[1]) = "dict"
      IN (k \notin IgnoredKeys /\ IsList(val1) /\ IsList(val2)) =>
           /\ IF Len(Payload(val1)) # Len(Payload(val2))
                THEN /\ Len(lens) = 1
                     /\ recs[1] = lens[1]
                     /\ PathOf(lens[1]) = p
                     /\ Detail(lens[1]) = <<Len(Payload(val1)), Len(Payload(val2))>>
                ELSE lens = <<>>
           /\ IF sampled
                THEN rest \in compare_objects(Payload(val1)[1], Payload(val2)[1],
                                              p \o <<"[0]">>)
                ELSE rest = <<>>

ArraySamplingWitness ==
  /\ pc = "compared"
  /\ BothDicts
  /\ \E k \in CommonKeys \ IgnoredKeys :
       /\ IsList(Payload(obj1)[k])
       /\ IsList(Payload(obj2)[k])
       /\ Len(Payload(Payload(obj1)[k])) = 1
       /\ Len(Payload(Payload(obj2)[k])) = 2
       /\ Len(differences) >= 2
       /\ Kind(differences[1]) = "Array length mismatch at"
       /\ Kind(differences[2]) = "Fields only in new API at"

\* the keys the claims name
ClaimedIgnored == {"lastRefreshed", "lastUpdated", "published", "created"}
ClaimedExempt == {"guid", "id", "description", "content", "title"}

ChildPath(p, k) == IF p = <<>> THEN <<k>> ELSE p \o <<".", k>>

SetKey(obj, k, val) == DictVal([Payload(obj) EXCEPT ![k] = val])
SetFirst(list, val) == ListVal([Payload(list) EXCEPT ![1] = val])

\* values of every type to put in place of an ignored value
Replacements ==
  {NoneVal, BoolVal(TRUE), IntVal(5), FloatVal(15), StrVal(<<"y">>),
   ListVal(<<DictVal([k \in {"count"} |-> IntVal(5)])>>),
   DictVal([k \in {"created"} |-> IntVal(5)])}

\* replacing, in obj1, the value that changed holds by any other value leaves
\* the possible results the same, and the returned one has no record at or
\* below p
Suppressed(changed(_), p) ==
  /\ \A rec \in ToSet(differences) : ~Under(p, rec)
  /\ \A val \in Replacements :
       /\ compare_objects(changed(val), obj2, path) = compare_objects(obj1, obj2, path)
       /\ differences \in compare_objects(changed(val), obj2, path)

\* C4: the value of an ignored key present on both sides, at the top level,
\* in a nested object or in the first element of an array, never matters:
\* any other value of any type gives the same result, with no record at or
\* below the key's path.
IgnoredSuppression ==
  (Compared /\ BothDicts) =>
    /\ \A k \in CommonKeys \cap ClaimedIgnored :
         LET changed(val) == SetKey(obj1, k, val)
         IN Suppressed(changed, ChildPath(path, k))
    /\ \A f \in CommonKeys \ ClaimedIgnored :
         LET val1 == Payload(obj1)[f]
             val2 == Payload(obj2)[f]
         IN /\ (IsDict(val1) /\ IsDict(val2)) =>
                 \A k \in KeysOf(val1) \cap KeysOf(val2) \cap ClaimedIgnored :
                   LET changed(val) == SetKey(obj1, f, SetKey(val1, k, val))
                   IN Suppressed(changed, ChildPath(ChildPath(path, f), k))
            /\ (/\ IsList(val1) /\ IsList(val2)
                /\ Len(Payload(val1)) > 0 /\ Len(Payload(val2)) > 0
                /\ IsDict(Payload(val1)[1]) /\ IsDict(Payload(val2)[1])) =>
                 \A k \in KeysOf(Payload(val1)[1]) \cap KeysOf(Payload(val2)[1])
                          \cap ClaimedIgnored :
                   LET changed(val) ==
                         SetKey(obj1, f, SetFirst(val1, SetKey(Payload(val1)[1], k, val)))
                   IN Suppressed(changed, ChildPath(ChildPath(path, f) \o <<"[0]">>, k))

IgnoredSuppressionWitness ==
  /\ pc = "compared"
  /\ BothDicts
  /\ differences # <<>>
  /\ \E f \in CommonKeys \ ClaimedIgnored :
       /\ IsList(Payload(obj1)[f])
       /\ IsList(Payload(obj2)[f])
       /\ Len(Payload(Payload(obj1)[f])) > 0
       /\ Len(Payload(Payload(obj2)[f])) > 0
       /\ "created" \in KeysOf(Payload(Payload(obj1)[f])[1])
       /\ "created" \in KeysOf(Payload(Payload(obj2)[f])[1])

\* the six JSON types of the data model: int and float are both Number
JsonType(val) ==
  CASE TypeName(val) = "NoneType" -> "Null"
    [] TypeName(val) = "bool" -> "Boolean"
    [] TypeName(val) \in {"int", "float"} -> "Number"
    [] TypeName(val) = "str" -> "String"
    [] TypeName(val) = "list" -> "Array"
    [] TypeName(val) = "dict" -> "Object"

\* the value of a JSON number, in tenths
NumberValue(val) == IF TypeName(val) = "int" THEN 10 * Payload(val) ELSE Payload(val)

\* two JSON values of the same JSON type differ
JsonDiffer(val1, val2) ==
  IF JsonType(val1) = "Number" /\ JsonType(val2) = "Number"
    THEN NumberValue(val1) # NumberValue(val2)
    ELSE val1 # val2

IsScalar(val) == JsonType(val) \notin {"Array", "Object"}

RecordsAt(kind, p) == SelectSeq(differences, LAMBDA rec : Kind(rec) = kind /\ PathOf(rec) = p)

\* C5 as stated: at a value-exempt common key, differing values of the same
\* JSON type give no value record and values of different JSON types give a
\* type record; at a common scalar key neither ignored nor exempt, differing
\* values of the same JSON type give exactly one value record.
ValueExemption ==
  (Compared /\ BothDicts) =>
    \A k \in CommonKeys :
      LET val1 == Payload(obj1)[k]
          val2 == Payload(obj2)[k]
          p == ChildPath(path, k)
      IN /\ (k \in ClaimedExempt /\ JsonType(val1) = JsonType(val2)
               /\ JsonDiffer(val1, val2)) =>
              RecordsAt("Value difference at", p) = <<>>
         /\ (k \in ClaimedExempt /\ JsonType(val1) # JsonType(val2)) =>
              Len(RecordsAt("Type mismatch at", p)) = 1
         /\ (/\ k \notin ClaimedIgnored \cup ClaimedExempt
             /\ IsScalar(val1) /\ IsScalar(val2)
             /\ JsonType(val1) = JsonType(val2)
             /\ JsonDiffer(val1, val2)) =>
              Len(RecordsAt("Value difference at", p)) = 1

\* C6: a "Fields only in current API" record of compare_objects(A, B) has a
\* "Fields only in new API" record at the same path with the same sorted key
\* list in every result of compare_objects(B, A), and conversely.
KeyOnlySymmetry ==
  Compared =>
    \A swapped \in compare_objects(obj2, obj1, path) :
      /\ \A rec \in ToSet(differences) :
           Kind(rec) = "Fields only in current API at" =>
             /\ IsSortedListOf(Detail(rec), ToSet(Detail(rec)))
             /\ \E other \in ToSet(swapped) :
                  /\ Kind(other) = "Fields only in new API at"
                  /\ PathOf(other) = PathOf(rec)
                  /\ Detail(other) = Detail(rec)
      /\ \A rec \in ToSet(differences) :
           Kind(rec) = "Fields only in new API at" =>
             /\ IsSortedListOf(Detail(rec), ToSet(Detail(rec)))
             /\ \E other \in ToSet(swapped) :
                  /\ Kind(other) = "Fields only in current API at"
                  /\ PathOf(other) = PathOf(rec)
                  /\ Detail(other) = Detail(rec)

KeyOnlySymmetryWitness ==
  /\ pc = "compared"
  /\ \E rec \in ToSet(differences) :
       /\ Kind(rec) = "Fields only in current API at"
       /\ PathOf(rec) # path
       /\ Len(Detail(rec)) >= 2

\* C7 as stated: the returned sequence is a function of the two inputs, so a
\* second run on the same inputs returns the same sequence.
SameSequenceEveryRun ==
  pc = "repeated" => again = differences

\* C9 as stated: at a common key that is not ignored there is a type record
\* exactly when the JSON types of the two values differ (5 and 5.0 are both
\* Number), and then it is the only record at or below the key's path.
TypeRecordIffJsonTypesDiffer ==
  (Compared /\ BothDicts) =>
    \A k \in CommonKeys \ ClaimedIgnored :
      LET val1 == Payload(obj1)[k]
          val2 == Payload(obj2)[k]
          p == ChildPath(path, k)
          types == RecordsAt("Type mismatch at", p)
      IN /\ Len(types) = (IF JsonType(val1) # JsonType(val2) THEN 1 ELSE 0)
         /\ types # <<>> => RecordsUnder(p, differences) = types

\* the printed lines with a preview, and the value each previews
PreviewLines == SelectSeq(report, LAMBDA line : line[1] \in {"feed", "item"})

Previewed(line) ==
  IF line[1] = "feed" THEN Payload(feed)[line[2]]
  ELSE Payload(Payload(Payload(feed)["items"])[1])[line[2]]

\* C8 as stated: the report never raises, whatever the feed object holds.
ReportNeverRaises ==
  raised = "none" /\ apc # "raised"

\* C10 as stated: no preview is longer than 50 characters.
PreviewAtMostFifty ==
  \A line \in ToSet(PreviewLines) : Len(line[4]) <= 50

\* C10 as amended: a preview is the string form unchanged when that has at
\* most 50 characters, and otherwise its first 50 characters followed by
\* "...", 53 characters in all; every field of the feed and of its first item
\* gets one.
PreviewTruncation ==
  /\ \A line \in ToSet(PreviewLines) :
       LET text == PyStr(Previewed(line))
       IN /\ Len(text) <= 50 => line[4] = text
          /\ Len(text) > 50 =>
               /\ Len(line[4]) = 53
               /\ SubSeq(line[4], 1, 50) = SubSeq(text, 1, 50)
               /\ SubSeq(line[4], 51, 53) = <<".", ".", ".">>
  /\ apc \in {"author", "items", "done", "raised"} =>
       {line[2] : line \in {l \in ToSet(report) : l[1] = "feed"}} = KeysOf(feed)
  /\ (apc = "done" /\ PyTruthy(Get(feed, "items"))) =>
       {line[2] : line \in {l \in ToSet(report) : l[1] = "item"}}
         = KeysOf(Payload(Get(feed, "items"))[1])

PreviewTruncationWitness ==
  /\ apc = "done"
  /\ \E line \in ToSet(PreviewLines) : line[1] = "feed" /\ Len(PyStr(Previewed(line))) = 51
  /\ \E line \in ToSet(PreviewLines) : line[1] = "item" /\ Len(PyStr(Previewed(line))) = 50
  /\ \E line \in ToSet(PreviewLines) : line[1] = "feed" /\ TypeName(Previewed(line)) = "list"

====
